---- MODULE Spec2Model ----
(***************************************************************************)
(* LiveManager (src/LiveConfig/manager.py): the registry of live classes   *)
(* and live instances, the type-coerced attribute accessor and the         *)
(* serializer, as a state machine.                                         *)
(*                                                                         *)
(* Python values are tagged records: the tag t is the value's type(), the  *)
(* payload field differs per tag.  Text (str values, attribute names) is a *)
(* sequence of one-character strings so that parsing, prefix tests and     *)
(* formatting are computed and not assumed.                                *)
(***************************************************************************)
EXTENDS Integers, Sequences, FiniteSets, TLC

VARIABLES live_classes, live_instances, file_handler, _instances, attrs, last

vars == <<live_classes, live_instances, file_handler, _instances, attrs, last>>

----------------------------------------------------------------------------
(* Python values *)

NoneVal == [t |-> "NoneType"]
BoolVal(b) == [t |-> "bool", b |-> b]
IntVal(i) == [t |-> "int", i |-> i]
StrVal(s) == [t |-> "str", s |-> s]
TupleVal(e) == [t |-> "tuple", e |-> e]
DictVal(d) == [t |-> "dict", d |-> d]
ListVal(e) == [t |-> "list", e |-> e]

(* an exception leaving the called function *)
Raised == [t |-> "raised"]

(* a dictionary key that is not there *)
Absent == [t |-> "absent"]

----------------------------------------------------------------------------
(* Text *)

Digits == <<"0", "1", "2", "3", "4", "5", "6", "7", "8", "9">>

IsDigit(c) == \E k \in 1..Len(Digits) : Digits[k] = c

DigitVal(c) == (CHOOSE k \in 1..Len(Digits) : Digits[k] = c) - 1

AllDigits(s) == \A k \in 1..Len(s) : IsDigit(s[k])

RECURSIVE DigitsToNat(_)
DigitsToNat(s) ==
    IF s = <<>> THEN 0
    ELSE 10 * DigitsToNat(SubSeq(s, 1, Len(s) - 1)) + DigitVal(s[Len(s)])

RECURSIVE NatToDigits(_)
NatToDigits(n) ==
    IF n < 10 THEN <<Digits[n + 1]>>
    ELSE NatToDigits(n \div 10) \o <<Digits[(n % 10) + 1]>>

UpperCase == <<"A", "B", "C", "D", "E", "F", "G", "H", "I", "J", "K", "L", "M",
               "N", "O", "P", "Q", "R", "S", "T", "U", "V", "W", "X", "Y", "Z">>
LowerCase == <<"a", "b", "c", "d", "e", "f", "g", "h", "i", "j", "k", "l", "m",
               "n", "o", "p", "q", "r", "s", "t", "u", "v", "w", "x", "y", "z">>

(* str.lower() *)
LowerChar(c) ==
    IF \E k \in 1..Len(UpperCase) : UpperCase[k] = c
    THEN LowerCase[CHOOSE k \in 1..Len(UpperCase) : UpperCase[k] = c]
    ELSE c

Lower(s) == [k \in 1..Len(s) |-> LowerChar(s[k])]

(* str.startswith(prefix) *)
StartsWith(s, prefix) ==
    /\ Len(s) >= Len(prefix)
    /\ SubSeq(s, 1, Len(prefix)) = prefix

(* str.split(sep): the fields between the separators, empty fields kept *)
RECURSIVE Split(_, _)
Split(s, sep) ==
    IF \A k \in 1..Len(s) : s[k] # sep THEN <<s>>
    ELSE LET k == CHOOSE j \in 1..Len(s) :
                      /\ s[j] = sep
                      /\ \A m \in 1..(j - 1) : s[m] # sep
         IN  <<SubSeq(s, 1, k - 1)>> \o Split(SubSeq(s, k + 1, Len(s)), sep)

----------------------------------------------------------------------------
(* Built-in type constructors: attr_type(value) of manager.py line 110.     *)
(* The result is a value of type attr_type, or Raised (TypeError or        *)
(* ValueError).                                                            *)

(* bool(value): truth value *)
Truthy(value) ==
    CASE value.t = "bool" -> value.b
      [] value.t = "int" -> value.i # 0
      [] value.t = "str" -> value.s # <<>>
      [] value.t \in {"tuple", "list"} -> value.e # <<>>
      [] value.t = "dict" -> DOMAIN value.d # {}
      [] OTHER -> FALSE

(* int(text): an optional sign and at least one digit *)
ParseInt(s) ==
    LET neg == Len(s) >= 1 /\ s[1] = "-"
        body == IF neg THEN SubSeq(s, 2, Len(s)) ELSE s
    IN  IF body # <<>> /\ AllDigits(body)
        THEN IntVal(IF neg THEN 0 - DigitsToNat(body) ELSE DigitsToNat(body))
        ELSE Raised

(* str(value) of an int *)
FormatInt(i) == IF i < 0 THEN <<"-">> \o NatToDigits(0 - i) ELSE NatToDigits(i)

(* tuple(text), list(text): the characters, each a str *)
Chars(s) == [k \in 1..Len(s) |-> StrVal(<<s[k]>>)]

(* int(value) *)
ConstructInt(value) ==
    CASE value.t = "int" -> value
      [] value.t = "bool" -> IntVal(IF value.b THEN 1 ELSE 0)
      [] value.t = "str" -> ParseInt(value.s)
      [] OTHER -> Raised

(* str(value) of the values a caller or a coercion supplies *)
ConstructStr(value) ==
    CASE value.t = "str" -> value
      [] value.t = "int" -> StrVal(FormatInt(value.i))
      [] value.t = "bool" -> StrVal(IF value.b THEN <<"T", "r", "u", "e">>
                                    ELSE <<"F", "a", "l", "s", "e">>)
      [] value.t = "NoneType" -> StrVal(<<"N", "o", "n", "e">>)

(* tuple(value), list(value) *)
ConstructSeq(attr_type, value) ==
    CASE value.t \in {"tuple", "list"} -> [t |-> attr_type, e |-> value.e]
      [] value.t = "str" -> [t |-> attr_type, e |-> Chars(value.s)]
      [] OTHER -> Raised

(* dict(value): a str is taken as a sequence of key-value pairs, and no    *)
(* character is a pair; an int is not iterable                             *)
ConstructDict(value) ==
    CASE value.t = "dict" -> value
      [] value.t = "str" -> IF value.s = <<>> THEN DictVal(<<>>) ELSE Raised
      [] value.t \in {"int", "bool", "NoneType"} -> Raised

Construct(attr_type, value) ==
    CASE attr_type = "bool" -> BoolVal(Truthy(value))
      [] attr_type = "int" -> ConstructInt(value)
      [] attr_type = "str" -> ConstructStr(value)
      [] attr_type \in {"tuple", "list"} -> ConstructSeq(attr_type, value)
      [] attr_type = "dict" -> ConstructDict(value)
      [] attr_type = "NoneType" -> Raised

----------------------------------------------------------------------------
(* TypeChecker (liveconfig.typechecker, imported at manager.py line 2; its  *)
(* source is not part of src/): the four coercions as spec.md 4.1 states    *)
(* them.  A result of Raised is TypeCoercionError leaving the coercion, a   *)
(* result of NoneVal is the reported null of the collection coercions.     *)

TrueTokens == {<<"t", "r", "u", "e">>, <<"1">>, <<"y", "e", "s">>}
FalseTokens == {<<"f", "a", "l", "s", "e">>, <<"0">>, <<"n", "o">>}

handle_bool(value) ==
    IF value.t = "bool" THEN value
    ELSE IF value.t = "str" /\ Lower(value.s) \in TrueTokens THEN BoolVal(TRUE)
    ELSE IF value.t = "str" /\ Lower(value.s) \in FalseTokens THEN BoolVal(FALSE)
    ELSE Raised

handle_int(value) ==
    IF value.t = "int" THEN value
    ELSE IF value.t = "str" THEN ParseInt(value.s)
    ELSE Raised

(* the text between optional enclosing brackets *)
Unbracket(s) ==
    IF /\ Len(s) >= 2
       /\ \/ s[1] = "(" /\ s[Len(s)] = ")"
          \/ s[1] = "[" /\ s[Len(s)] = "]"
    THEN SubSeq(s, 2, Len(s) - 1)
    ELSE s

(* one field of a collection, coerced to the type of the current element *)
CoerceElement(elem_type, field) ==
    CASE elem_type = "bool" -> handle_bool(StrVal(field))
      [] elem_type = "int" -> handle_int(StrVal(field))
      [] elem_type = "str" -> StrVal(field)
      [] OTHER -> Raised

(* current is the value now held by attr_name on the owner instance *)
CoerceTuple(value, current) ==
    IF value.t # "str" \/ current.t # "tuple" THEN NoneVal
    ELSE LET fields == Split(Unbracket(value.s), ",")
             elems == [k \in 1..Len(fields) |->
                          IF k <= Len(current.e)
                          THEN CoerceElement(current.e[k].t, fields[k])
                          ELSE Raised]
         IN  IF Len(fields) # Len(current.e) THEN NoneVal
             ELSE IF \E k \in 1..Len(elems) : elems[k] = Raised THEN NoneVal
             ELSE TupleVal(elems)

CoerceList(value, current) ==
    IF value.t # "str" \/ current.t # "list" \/ current.e = <<>> THEN NoneVal
    ELSE LET fields == Split(Unbracket(value.s), ",")
             elems == [k \in 1..Len(fields) |->
                          CoerceElement(current.e[1].t, fields[k])]
         IN  IF \E k \in 1..Len(elems) : elems[k] = Raised THEN NoneVal
             ELSE ListVal(elems)

----------------------------------------------------------------------------
(* The program's classes and objects.  B is a subclass of A; A2 is a second *)
(* class object whose __name__ is also "A" (the module defining A loaded   *)
(* again).  Objects are constructed outside the registry, each with the    *)
(* attributes its constructor assigns.                                     *)

Classes == {"A", "A2", "B"}

(* cls.__name__ *)
NameOf(cls) == IF cls = "A2" THEN "A" ELSE cls

ClassNames == {NameOf(c) : c \in Classes} \cup {"C"}

(* cls.__mro__ without object *)
Mro(cls) == IF cls = "B" THEN <<"B", "A">> ELSE <<cls>>

Objects == {"o1", "o2"}

(* type(instance) *)
TypeOf(o) == IF o = "o1" THEN "A" ELSE "B"

ObjRef(o) == [t |-> TypeOf(o), o |-> o]

InstanceNames == {"x", "y"}

(* attribute names *)
a_b == "b"
a_n == "n"
a_t == "t"
a_z == "z"
a_s == "s"
a_l == "l"
a_w == "w"
a_k == "k"
a_d == "d"
a_q == "_q"
a_p == "__p"
a_tracked == "_tracked_attrs"

(* the characters of an attribute name *)
Spelling(attr) ==
    CASE attr = a_q -> <<"_", "q">>
      [] attr = a_p -> <<"_", "_", "p">>
      [] attr = a_tracked ->
            <<"_", "t", "r", "a", "c", "k", "e", "d", "_", "a", "t", "t", "r", "s">>
      [] OTHER -> <<attr>>

(* the attribute names the callers of the accessor use *)
AttrNames == {a_b, a_n, a_t, a_z, a_d, a_s, a_l, a_k}

(* vars(instance) right after construction *)
Constructed(o) ==
    IF o = "o1"
    THEN (a_b :> BoolVal(TRUE)) @@ (a_n :> IntVal(1)) @@ (a_z :> NoneVal)
         @@ (a_d :> DictVal(<<>>))
         @@ (a_t :> TupleVal(<<IntVal(1), IntVal(2), IntVal(3)>>))
         @@ (a_tracked :> TupleVal(<<StrVal(<<"b">>), StrVal(<<"n">>)>>))
    ELSE (a_s :> StrVal(<<"1">>)) @@ (a_l :> ListVal(<<IntVal(0)>>))
         @@ (a_p :> IntVal(0))
         @@ (a_q :> TupleVal(<<BoolVal(TRUE), BoolVal(FALSE)>>))

(* raw values an external caller passes to the accessor *)
MaxRawInt == 0

RawValues ==
    { StrVal(<<"0">>), StrVal(<<"Y", "e", "s">>), StrVal(<<"(", "1", ",", "0", ")">>) }
        \cup {IntVal(i) : i \in 0..MaxRawInt}

(* the persisted snapshot the file handler may have loaded *)
Snapshot == "x" :> ((a_n :> IntVal(0)) @@ (a_w :> NoneVal))

(* the states of the file_handler collaborator: not attached, attached      *)
(* with nothing loaded, loaded without and with the "live_instances" key   *)
FileHandlers ==
    { NoneVal,
      [t |-> "FileHandler", loaded_values |-> NoneVal],
      [t |-> "FileHandler", loaded_values |-> DictVal(<<>>)],
      [t |-> "FileHandler", loaded_values |-> DictVal([live_instances |-> Snapshot])] }

----------------------------------------------------------------------------
(* LiveManager.__init__ *)

Init ==
    /\ live_classes = <<>>
    /\ live_instances = <<>>
    /\ file_handler \in FileHandlers
    /\ _instances = [c \in Classes |-> [has |-> FALSE, list |-> <<>>]]
    /\ attrs = [o \in Objects |-> Constructed(o)]
    /\ last = [op |-> "__init__", line |-> 10, ret |-> NoneVal]

(* the keys of the instance table, in insertion order *)
InstanceKeys == [k \in 1..Len(live_instances) |-> live_instances[k].name]

HasInstance(name) == \E k \in 1..Len(live_instances) : live_instances[k].name = name

InstanceAt(name) ==
    live_instances[CHOOSE k \in 1..Len(live_instances) : live_instances[k].name = name].instance

----------------------------------------------------------------------------
(* register_class *)

(* registration that also starts the class's instance list afresh *)
register_class_reset(cls) ==
    /\ live_classes' = [n \in DOMAIN live_classes \cup {NameOf(cls)} |->
                            IF n = NameOf(cls) THEN cls ELSE live_classes[n]]
    /\ last' = [op |-> "register_class", line |-> 17, ret |-> [t |-> "type", c |-> cls],
                old |-> IF NameOf(cls) \in DOMAIN live_classes
                        THEN [t |-> "type", c |-> live_classes[NameOf(cls)]]
                        ELSE NoneVal]
    /\ _instances' = [_instances EXCEPT ![cls] = [has |-> TRUE, list |-> <<>>]]
    /\ UNCHANGED <<live_instances, file_handler, attrs>>

(* last.old is the entry the call replaced, None when there was none *)
register_class(cls) ==
    /\ live_classes' = [n \in DOMAIN live_classes \cup {NameOf(cls)} |->
                            IF n = NameOf(cls) THEN cls ELSE live_classes[n]]
    /\ last' = [op |-> "register_class", line |-> 17, ret |-> [t |-> "type", c |-> cls],
                old |-> IF NameOf(cls) \in DOMAIN live_classes
                        THEN [t |-> "type", c |-> live_classes[NameOf(cls)]]
                        ELSE NoneVal]
    /\ UNCHANGED <<live_instances, file_handler, _instances, attrs>>

----------------------------------------------------------------------------
(* Attribute lookup *)

(* the class that holds the _instances list cls sees: the first class of   *)
(* the MRO with the attribute, "" when none has it                          *)
InstancesOwner(cls) ==
    LET m == Mro(cls)
    IN  IF \E k \in 1..Len(m) : _instances[m[k]].has
        THEN m[CHOOSE k \in 1..Len(m) :
                   /\ _instances[m[k]].has
                   /\ \A j \in 1..(k - 1) : ~_instances[m[j]].has]
        ELSE ""

(* hasattr(cls, "_instances") *)
hasattr_instances(cls) == InstancesOwner(cls) # ""

(* getattr(cls, "_instances") as a Python list *)
InstancesList(cls) ==
    LET l == _instances[InstancesOwner(cls)].list
    IN  ListVal([k \in 1..Len(l) |-> ObjRef(l[k])])

(* attributes defined in a class body, other than _instances *)
ClassDict(cls) ==
    IF cls = "B" THEN (a_k :> TupleVal(<<IntVal(1), IntVal(0)>>)) ELSE <<>>

(* getattr(instance, attr_name, None) with the instance dictionaries       *)
(* dicts: the instance dictionary, then the classes of the MRO             *)
GetAttrIn(dicts, instance, attr_name) ==
    LET m == Mro(TypeOf(instance))
    IN  IF attr_name \in DOMAIN dicts[instance] THEN dicts[instance][attr_name]
        ELSE IF \E k \in 1..Len(m) : attr_name \in DOMAIN ClassDict(m[k])
        THEN ClassDict(m[CHOOSE k \in 1..Len(m) :
                            /\ attr_name \in DOMAIN ClassDict(m[k])
                            /\ \A j \in 1..(k - 1) : attr_name \notin DOMAIN ClassDict(m[j])])[attr_name]
        ELSE NoneVal

getattr(instance, attr_name) == GetAttrIn(attrs, instance, attr_name)

----------------------------------------------------------------------------
(* register_instance *)

(* the check of line 23 left out *)
NameTaken_never(name) == FALSE

(* line 23 *)
NameTaken(name) == HasInstance(name)

(* line 27 *)
HasLoadedInstances ==
    /\ file_handler # NoneVal
    /\ file_handler.loaded_values # NoneVal
    /\ "live_instances" \in DOMAIN file_handler.loaded_values.d

(* line 28: loaded_values["live_instances"].get(name, {}) *)
SavedAttrs(name) ==
    LET saved == file_handler.loaded_values.d["live_instances"]
    IN  IF name \in DOMAIN saved THEN saved[name] ELSE <<>>

(* the entry looked up with setdefault(name, {}): a name the snapshot does *)
(* not list gets an empty entry in the loaded values                       *)
HandlerAfterLookup_setdefault(name) ==
    IF HasLoadedInstances
    THEN IF name \in DOMAIN file_handler.loaded_values.d["live_instances"]
         THEN file_handler
         ELSE [file_handler EXCEPT !.loaded_values.d.live_instances = (name :> <<>>) @@ @]
    ELSE file_handler

(* lines 27-29: the file handler after the lookup; .get(name, {}) and the  *)
(* walk over attrs.items() read the loaded values and write nothing        *)
HandlerAfterLookup(name) == file_handler

(* the snapshot entry not applied *)
load_values_ignored(dict, saved) == dict

(* only the attributes the instance already has are overwritten *)
load_values_existing_only(dict, saved) ==
    [a \in DOMAIN dict |-> IF a \in DOMAIN saved THEN saved[a] ELSE dict[a]]

(* the instance dictionary after setattr(instance, attr, value) for every  *)
(* item of saved                                                            *)
load_values_into_instance(dict, saved) ==
    [a \in DOMAIN dict \cup DOMAIN saved |->
        IF a \in DOMAIN saved THEN saved[a] ELSE dict[a]]

(* the list started afresh at every registration, without line 34 *)
RecordInstance_replace(cls, instance) ==
    [_instances EXCEPT ![cls] = [has |-> TRUE, list |-> <<instance>>]]

(* lines 33-37: the _instances attributes after the instance is recorded   *)
RecordInstance(cls, instance) ==
    IF hasattr_instances(cls)
    THEN [_instances EXCEPT ![InstancesOwner(cls)].list = Append(@, instance)]
    ELSE [_instances EXCEPT ![cls] = [has |-> TRUE, list |-> <<instance>>]]

register_instance(name, instance) ==
    IF NameTaken(name)
    THEN /\ last' = [op |-> "register_instance", line |-> 24, ret |-> Raised]
         /\ UNCHANGED <<live_classes, live_instances, file_handler, _instances, attrs>>
    ELSE /\ attrs' = IF HasLoadedInstances
                     THEN [attrs EXCEPT ![instance] =
                              load_values_into_instance(@, SavedAttrs(name))]
                     ELSE attrs
         /\ live_instances' = Append(live_instances, [name |-> name, instance |-> instance])
         /\ _instances' = RecordInstance(TypeOf(instance), instance)
         /\ last' = [op |-> "register_instance", line |-> 37, ret |-> NoneVal]
         /\ file_handler' = HandlerAfterLookup(name)
         /\ UNCHANGED live_classes

----------------------------------------------------------------------------
(* Getters *)

get_live_classes == DictVal(live_classes)

(* self.live_classes.get(class_name) *)
get_live_class_by_name(class_name) ==
    IF class_name \in DOMAIN live_classes
    THEN [t |-> "type", c |-> live_classes[class_name]]
    ELSE NoneVal

(* a class object is true; getattr(cls, "_instances", []) *)
get_live_instances(class_name) ==
    LET cls == get_live_class_by_name(class_name)
    IN  IF cls # NoneVal
        THEN IF hasattr_instances(cls.c) THEN InstancesList(cls.c) ELSE ListVal(<<>>)
        ELSE NoneVal

(* an unknown name answered with the first registered instance *)
get_live_instance_by_name_default(instance_name) ==
    IF HasInstance(instance_name) THEN ObjRef(InstanceAt(instance_name))
    ELSE IF live_instances # <<>> THEN ObjRef(live_instances[1].instance)
    ELSE NoneVal

get_live_instance_by_name(instance_name) ==
    IF HasInstance(instance_name) THEN ObjRef(InstanceAt(instance_name)) ELSE NoneVal

(* falls off the end, returning None, when instance is None *)
get_live_instance_attr_by_name(instance, attr_name) ==
    IF instance # NoneVal THEN getattr(instance.o, attr_name) ELSE NoneVal

----------------------------------------------------------------------------
(* set_live_instance_attr_by_name *)

handle_tuple(value, instance, attr_name) ==
    CoerceTuple(value, getattr(instance, attr_name))

handle_list(value, instance, attr_name) ==
    CoerceList(value, getattr(instance, attr_name))

(* the test written as "if not attr" *)
AttrMissing_falsy(attr) == attr = NoneVal \/ ~Truthy(attr)

(* the test of line 93 left out *)
AttrMissing_never(attr) == FALSE

(* line 93: the attribute counts as missing *)
AttrMissing(attr) == attr = NoneVal

(* the tuple and list branches left out: the raw value goes to the        *)
(* constructor                                                             *)
Dispatch_scalars_only(attr_type, value, instance, attr_name) ==
    CASE attr_type = "bool" -> handle_bool(value)
      [] attr_type = "int" -> handle_int(value)
      [] OTHER -> value

(* lines 97-108: the value handed to the constructor; Raised when the      *)
(* scalar coercion raises, NoneVal when the collection coercion gives None *)
Dispatch(attr_type, value, instance, attr_name) ==
    CASE attr_type = "bool" -> handle_bool(value)
      [] attr_type = "int" -> handle_int(value)
      [] attr_type = "tuple" -> handle_tuple(value, instance, attr_name)
      [] attr_type = "list" -> handle_list(value, instance, attr_name)
      [] OTHER -> value

(* the value stored as it is, without attr_type(value) *)
Converted_as_is(attr_type, value) == value

(* the value turned into text whatever the attribute's type is *)
Converted_text(attr_type, value) == ConstructStr(value)

(* lines 109-114: attr_type(value) inside the try *)
Converted(attr_type, value) == Construct(attr_type, value)

(* what setattr returns, line 111 *)
SetattrResult == NoneVal

(* the call's way out: the line it leaves at, what the caller gets (Raised *)
(* for an exception that leaves the function) and the value written to the *)
(* attribute (Absent when nothing is written)                               *)
SetOutcome(instance_name, attr_name, value) ==
    LET instance == get_live_instance_by_name(instance_name)
        attr == get_live_instance_attr_by_name(instance, attr_name)
    IN  IF instance = NoneVal THEN [line |-> 91, ret |-> NoneVal, write |-> Absent]
        ELSE IF AttrMissing(attr) THEN [line |-> 93, ret |-> NoneVal, write |-> Absent]
        ELSE LET attr_type == attr.t
                 coerced == Dispatch(attr_type, value, instance.o, attr_name)
             IN  IF coerced = Raised
                 THEN [line |-> IF attr_type = "bool" THEN 98 ELSE 100,
                       ret |-> Raised, write |-> Absent]
                 ELSE IF attr_type \in {"tuple", "list"} /\ coerced = NoneVal
                 THEN [line |-> IF attr_type = "tuple" THEN 104 ELSE 108,
                       ret |-> NoneVal, write |-> Absent]
                 ELSE IF Converted(attr_type, coerced) = Raised
                 THEN [line |-> 114, ret |-> NoneVal, write |-> Absent]
                 ELSE [line |-> 111, ret |-> SetattrResult,
                       write |-> Converted(attr_type, coerced)]

(* setattr(instance, attr_name, value) on the instance dictionary *)
setattr(dict, attr_name, value) ==
    [a \in DOMAIN dict \cup {attr_name} |-> IF a = attr_name THEN value ELSE dict[a]]

(* the instance dictionaries after the call *)
AttrsAfterSet(instance_name, attr_name, value) ==
    LET out == SetOutcome(instance_name, attr_name, value)
    IN  IF out.write = Absent THEN attrs
        ELSE [attrs EXCEPT ![InstanceAt(instance_name)] = setattr(@, attr_name, out.write)]

set_live_instance_attr_by_name(instance_name, attr_name, value) ==
    LET out == SetOutcome(instance_name, attr_name, value)
    IN  /\ attrs' = AttrsAfterSet(instance_name, attr_name, value)
        /\ last' = [op |-> "set_live_instance_attr_by_name",
                    line |-> out.line, ret |-> out.ret]
        /\ UNCHANGED <<live_classes, live_instances, file_handler, _instances>>

----------------------------------------------------------------------------
(* serialize_instances *)

(* every name with a leading underscore taken as internal *)
Internal_any_underscore(attr) == StartsWith(Spelling(attr), <<"_">>)

(* line 132 *)
Internal(attr) ==
    \/ StartsWith(Spelling(attr), <<"_", "_">>)
    \/ StartsWith(Spelling(attr), Spelling(a_tracked))

(* lines 129-137 for one instance: vars(live_instance) without the         *)
(* internal attributes, the values copied as they are                      *)
clean_attrs(instance) ==
    [a \in {x \in DOMAIN attrs[instance] : ~Internal(x)} |-> attrs[instance][a]]

(* the entries written newest first *)
serialize_instances_newest_first ==
    DictVal([live_instances |->
                [k \in 1..Len(live_instances) |->
                    [name |-> live_instances[Len(live_instances) + 1 - k].name,
                     attrs |-> clean_attrs(live_instances[Len(live_instances) + 1 - k].instance)]]])

(* the entries keep the order of the instance table *)
serialize_instances ==
    DictVal([live_instances |->
                [k \in 1..Len(live_instances) |->
                    [name |-> live_instances[k].name,
                     attrs |-> clean_attrs(live_instances[k].instance)]]])

----------------------------------------------------------------------------
(* The getters and the serializer leave the state as it is; last records   *)
(* the call and the line it returned at, the value returned is the value   *)
(* of the operator above.                                                  *)

Returns(op, line) ==
    /\ last' = [op |-> op, line |-> line]
    /\ UNCHANGED <<live_classes, live_instances, file_handler, _instances, attrs>>

call_get_live_classes == Returns("get_live_classes", 51)

call_get_live_class_by_name(class_name) == Returns("get_live_class_by_name", 57)

call_get_live_instances(class_name) ==
    Returns("get_live_instances",
            IF get_live_class_by_name(class_name) # NoneVal THEN 65 ELSE 66)

call_get_live_instance_by_name(instance_name) ==
    Returns("get_live_instance_by_name", IF HasInstance(instance_name) THEN 73 ELSE 76)

call_get_live_instance_attr_by_name(instance, attr_name) ==
    Returns("get_live_instance_attr_by_name", IF instance # NoneVal THEN 86 ELSE 87)

call_serialize_instances == Returns("serialize_instances", 140)

----------------------------------------------------------------------------
(* Properties of the registry *)

(* the snapshot entry of name in the collaborator's loaded values, empty   *)
(* when nothing is loaded for it                                           *)
LoadedFor(name) ==
    IF file_handler = NoneVal THEN <<>>
    ELSE IF file_handler.loaded_values = NoneVal THEN <<>>
    ELSE IF "live_instances" \notin DOMAIN file_handler.loaded_values.d THEN <<>>
    ELSE IF name \notin DOMAIN file_handler.loaded_values.d["live_instances"] THEN <<>>
    ELSE file_handler.loaded_values.d["live_instances"][name]

(* C1: register_instance with a name that is already a key of the instance *)
(* table raises and changes nothing: the table, the per-class lists and    *)
(* every object's attributes stay as they are (no snapshot is applied).    *)
C1_DuplicateNameRejected ==
    [][\A name \in InstanceNames, instance \in Objects :
          (HasInstance(name) /\ register_instance(name, instance))
              => /\ last'.ret = Raised
                 /\ live_instances' = live_instances
                 /\ _instances' = _instances
                 /\ attrs' = attrs
                 /\ live_classes' = live_classes]_vars

(* a duplicate registration was rejected while a snapshot for "x" was      *)
(* loaded and one instance held the name "x"                               *)
C1_Witness ==
    /\ last.op = "register_instance"
    /\ last.ret = Raised
    /\ LoadedFor("x") # <<>>
    /\ HasInstance("x")
    /\ Len(live_instances) = 1

(* C2: a successful register_instance(name, instance) leaves every         *)
(* attribute listed in the loaded snapshot entry of name at the snapshot's *)
(* value, leaves every other attribute of the instance as the call found   *)
(* it, and changes no attribute at all when there is no entry for name.    *)
C2_SnapshotApplied ==
    [][\A name \in InstanceNames, instance \in Objects :
          (~HasInstance(name) /\ register_instance(name, instance))
              => /\ DOMAIN attrs'[instance] = DOMAIN attrs[instance] \cup DOMAIN LoadedFor(name)
                 /\ \A a \in DOMAIN LoadedFor(name) : attrs'[instance][a] = LoadedFor(name)[a]
                 /\ \A a \in DOMAIN attrs[instance] \ DOMAIN LoadedFor(name) :
                        attrs'[instance][a] = attrs[instance][a]
                 /\ LoadedFor(name) = <<>> => attrs' = attrs]_vars

(* "x" was registered with the snapshot loaded: the instance's n is the    *)
(* snapshot's value and not the constructor's, and w was created           *)
C2_Witness ==
    /\ last.op = "register_instance"
    /\ last.ret = NoneVal
    /\ HasInstance("x")
    /\ LoadedFor("x") # <<>>
    /\ attrs[InstanceAt("x")][a_n] = LoadedFor("x")[a_n]
    /\ a_n \in DOMAIN Constructed(InstanceAt("x"))
    /\ Constructed(InstanceAt("x"))[a_n] # LoadedFor("x")[a_n]
    /\ a_w \in DOMAIN attrs[InstanceAt("x")]

(* the registered instances whose runtime class is cls *)
InstancesOfClass(cls) ==
    {k \in 1..Len(live_instances) : TypeOf(live_instances[k].instance) = cls}

(* C9: get_live_instances returns None for a name that is not a key of the *)
(* class table, and an empty list for a registered class of which no       *)
(* instance has been registered.                                           *)
C9_UnknownAndEmptyDistinct ==
    \A class_name \in ClassNames :
        /\ class_name \notin DOMAIN live_classes
              => get_live_instances(class_name) = NoneVal
        /\ (/\ class_name \in DOMAIN live_classes
            /\ InstancesOfClass(live_classes[class_name]) = {})
              => get_live_instances(class_name) = ListVal(<<>>)

(* C10: register_class of a class that is already registered under its     *)
(* name returns the class and leaves the class table, the instance table,  *)
(* every per-class instance list and every attribute as they are.          *)
C10_RegisterClassIdempotent ==
    [][\A cls \in Classes :
          (/\ NameOf(cls) \in DOMAIN live_classes
           /\ live_classes[NameOf(cls)] = cls
           /\ register_class(cls))
              => /\ last'.ret = [t |-> "type", c |-> cls]
                 /\ live_classes' = live_classes
                 /\ live_instances' = live_instances
                 /\ _instances' = _instances
                 /\ attrs' = attrs]_vars

(* a class was registered over its own entry while its instance list held  *)
(* an instance                                                             *)
C10_Witness ==
    /\ last.op = "register_class"
    /\ last.old = last.ret
    /\ live_classes[NameOf(last.ret.c)] = last.ret.c
    /\ _instances[last.ret.c].list # <<>>

----------------------------------------------------------------------------
(* Properties of the accessor and the serializer *)

(* getAttr on the instance registered under name *)
AttrOf(name, attr_name) ==
    get_live_instance_attr_by_name(get_live_instance_by_name(name), attr_name)

(* getAttr on the instance registered under name, right after the call     *)
(* set_live_instance_attr_by_name(set_name, set_attr, value)               *)
AttrAfterSet(name, attr_name, set_name, set_attr, value) ==
    GetAttrIn(AttrsAfterSet(set_name, set_attr, value), InstanceAt(name), attr_name)

(* the scalar coercion of the raw value for a bool or int attribute *)
ScalarCoercion(attr_type, value) ==
    IF attr_type = "bool" THEN handle_bool(value) ELSE handle_int(value)

(* C3: in every state, for an attribute of a registered instance whose     *)
(* current type is bool or int and for every raw value, getAttr after the  *)
(* call returns the coerced value when the raw value is well-formed        *)
(* (False and 0 included), and the previous value when it is malformed.    *)
C3_ScalarSetThenGet ==
    \A name \in InstanceNames, attr_name \in AttrNames, value \in RawValues :
        (HasInstance(name) /\ AttrOf(name, attr_name).t \in {"bool", "int"})
            => IF ScalarCoercion(AttrOf(name, attr_name).t, value) # Raised
               THEN AttrAfterSet(name, attr_name, name, attr_name, value) =
                        ScalarCoercion(AttrOf(name, attr_name).t, value)
               ELSE AttrAfterSet(name, attr_name, name, attr_name, value) =
                        AttrOf(name, attr_name)

(* writes went through and left a bool attribute False and an int          *)
(* attribute 0 on the one registered instance, for whose name nothing was  *)
(* loaded                                                                  *)
C3_Witness ==
    /\ last.op = "set_live_instance_attr_by_name"
    /\ last.line = 111
    /\ live_instances = <<[name |-> "y", instance |-> "o1"]>>
    /\ LoadedFor("y") = <<>>
    /\ AttrOf("y", a_b) = BoolVal(FALSE)
    /\ AttrOf("y", a_n) = IntVal(0)

(* C4: a coercion failure never leaves set_live_instance_attr_by_name as   *)
(* an exception: every call returns to its caller.                         *)
C4_CoercionNeverRaises ==
    last.op = "set_live_instance_attr_by_name" => last.ret # Raised

(* C5: a call of set_live_instance_attr_by_name that returns gives true    *)
(* when it wrote the attribute and the failure value (false, or None) when *)
(* it wrote nothing, so that the caller can tell the two apart.            *)
C5_ReturnsSuccess ==
    (last.op = "set_live_instance_attr_by_name" /\ last.ret # Raised)
        => IF last.line = 111 THEN last.ret = BoolVal(TRUE)
           ELSE last.ret \in {BoolVal(FALSE), NoneVal}

(* every attribute name an object of the model can hold *)
AllAttrNames == AttrNames \cup {a_w, a_q, a_p, a_tracked}

(* C6: in every state, for every registered name, attribute name and raw   *)
(* value, the call leaves every attribute of every object with the type it *)
(* had, whether it succeeds or fails.                                      *)
C6_TypePreserved ==
    \A name \in InstanceNames, attr_name \in AttrNames, value \in RawValues :
        HasInstance(name)
            => LET after == AttrsAfterSet(name, attr_name, value)
               IN  \A o \in Objects, a \in AllAttrNames :
                      GetAttrIn(after, o, a).t = getattr(o, a).t

(* a write went through on a str attribute with a raw value that is not a  *)
(* str: the attribute holds the digits of the int                          *)
C6_Witness ==
    /\ last.op = "set_live_instance_attr_by_name"
    /\ last.line = 111
    /\ \E name \in InstanceNames :
          /\ HasInstance(name)
          /\ AttrOf(name, a_s) = StrVal(<<"0">>)

(* the number of elements of a raw textual value *)
RawElements(value) == Len(Split(Unbracket(value.s), ","))

(* C7: in every state, on a tuple attribute of a registered instance a raw *)
(* value with another number of elements than the tuple has is refused:    *)
(* the call returns None and writes nothing; nothing is written either     *)
(* when the tuple or list coercion returns None.                           *)
C7_TupleArityPreserved ==
    \A name \in InstanceNames, attr_name \in AttrNames, value \in RawValues :
        HasInstance(name)
            => LET current == AttrOf(name, attr_name)
                   refused == /\ SetOutcome(name, attr_name, value).ret = NoneVal
                              /\ AttrsAfterSet(name, attr_name, value) = attrs
               IN  /\ (/\ current.t = "tuple"
                       /\ value.t = "str"
                       /\ RawElements(value) # Len(current.e)) => refused
                   /\ (/\ current.t = "tuple"
                       /\ handle_tuple(value, InstanceAt(name), attr_name) = NoneVal)
                          => refused
                   /\ (/\ current.t = "list"
                       /\ handle_list(value, InstanceAt(name), attr_name) = NoneVal)
                          => refused

(* the tuple coercion returned None and the call left at line 104 with the *)
(* tuple of arity 3 as the constructor made it                             *)
C7_Witness ==
    /\ last.op = "set_live_instance_attr_by_name"
    /\ last.line = 104
    /\ \E name \in InstanceNames :
          /\ HasInstance(name)
          /\ AttrOf(name, a_t) = Constructed("o1")[a_t]

(* a name with one of the reserved prefixes "__" and "_tracked_attrs" *)
ReservedName(a) ==
    LET c == Spelling(a)
        r == Spelling(a_tracked)
    IN  \/ Len(c) >= 2 /\ c[1] = "_" /\ c[2] = "_"
        \/ Len(c) >= Len(r) /\ \A k \in 1..Len(r) : c[k] = r[k]

(* C8: the snapshot has one entry per registered instance name, and the    *)
(* entry of a name holds exactly the attributes now set on its instance    *)
(* whose names have no reserved prefix, each with its current value.       *)
C8_SerializedExactly ==
    LET out == serialize_instances.d["live_instances"]
    IN  /\ DOMAIN serialize_instances.d = {"live_instances"}
        /\ Len(out) = Len(live_instances)
        /\ \A k \in 1..Len(out) :
              /\ out[k].name = live_instances[k].name
              /\ \A j \in 1..Len(out) : out[j].name = out[k].name => j = k
              /\ DOMAIN out[k].attrs =
                    {a \in DOMAIN attrs[live_instances[k].instance] : ~ReservedName(a)}
              /\ \A a \in DOMAIN out[k].attrs :
                    out[k].attrs[a] = attrs[live_instances[k].instance][a]

(* serialize_instances ran with both objects registered, one holding       *)
(* _tracked_attrs, the other __p and _q, after an attribute was edited     *)
C8_Witness ==
    /\ last.op = "serialize_instances"
    /\ Len(live_instances) = 2
    /\ live_instances[1].instance # live_instances[2].instance
    /\ attrs # [o \in Objects |-> Constructed(o)]
    /\ a_q \in DOMAIN serialize_instances.d["live_instances"][2].attrs

----------------------------------------------------------------------------
(* Further properties of the accessor *)

(* hasattr(instance, attr_name): the name is in the instance dictionary or *)
(* in the dictionary of a class of the MRO                                 *)
HasAttr(instance, attr_name) ==
    \/ attr_name \in DOMAIN attrs[instance]
    \/ \E k \in 1..Len(Mro(TypeOf(instance))) :
          attr_name \in DOMAIN ClassDict(Mro(TypeOf(instance))[k])

(* C11: in every state, set_live_instance_attr_by_name on a name that is   *)
(* not registered, or on an attribute name the named instance does not     *)
(* have, returns None without raising and writes no attribute (so creates  *)
(* none); and every call that leaves at line 91 or 93 leaves the class     *)
(* table, the instance table, the per-class lists, all attributes and the  *)
(* file handler as they were.                                              *)
C11_MissingTargetNoOp ==
    /\ [](\A name \in InstanceNames, attr_name \in AttrNames, value \in RawValues :
            (\/ ~HasInstance(name)
             \/ ~HasAttr(InstanceAt(name), attr_name))
                => /\ SetOutcome(name, attr_name, value).line \in {91, 93}
                   /\ SetOutcome(name, attr_name, value).ret = NoneVal
                   /\ AttrsAfterSet(name, attr_name, value) = attrs)
    /\ [][(/\ last'.op = "set_live_instance_attr_by_name"
           /\ last'.line \in {91, 93})
              => /\ last'.ret = NoneVal
                 /\ UNCHANGED <<live_classes, live_instances, file_handler,
                                _instances, attrs>>]_vars

(* a call on an attribute the one registered instance does not have left   *)
(* at line 93, after an attribute of the instance had been edited          *)
C11_Witness ==
    /\ last.op = "set_live_instance_attr_by_name"
    /\ last.line = 93
    /\ Len(live_instances) = 1
    /\ attrs[live_instances[1].instance] # Constructed(live_instances[1].instance)
    /\ \E attr_name \in AttrNames : ~HasAttr(live_instances[1].instance, attr_name)

(* the instance names of the snapshot, in the snapshot's order *)
SerializedNames ==
    [k \in 1..Len(serialize_instances.d["live_instances"]) |->
        serialize_instances.d["live_instances"][k].name]

(* C12: the snapshot's instance names are the names in the order they were *)
(* registered: a successful register_instance(name, _) puts name at the    *)
(* end of the snapshot's names, every other call (a rejected registration, *)
(* a write through set_live_instance_attr_by_name, a getter) leaves the    *)
(* names and their order as they were, and serialize_instances leaves the  *)
(* whole snapshot as it was, so a second call gives the same snapshot.     *)
C12_SerializeInRegistrationOrder ==
    [][/\ \A name \in InstanceNames, instance \in Objects :
             (~HasInstance(name) /\ register_instance(name, instance))
                 => SerializedNames' = Append(SerializedNames, name)
       /\ ~(last'.op = "register_instance" /\ last'.line = 37)
             => SerializedNames' = SerializedNames
       /\ last'.op = "serialize_instances"
             => serialize_instances' = serialize_instances]_vars

(* serialize_instances ran with "y" registered before "x", after a write   *)
(* to an attribute: the snapshot names "y" first                           *)
C12_Witness ==
    /\ last.op = "serialize_instances"
    /\ SerializedNames = <<"y", "x">>
    /\ \E o \in Objects : attrs[o] # Constructed(o) /\ a_w \notin DOMAIN attrs[o]

----------------------------------------------------------------------------
(* register_instance statement by statement: last.line is the line the     *)
(* call has reached, last.name and last.instance its arguments             *)

(* the table insertion of line 31 run before the snapshot load of line 27 *)
NextLine_insert_first(line) ==
    CASE line = 23 -> 31
      [] line = 31 -> 27
      [] line = 27 -> 33
      [] line = 33 -> 37

(* the statement that follows the statement at line, lines 23-37 *)
NextLine(line) ==
    CASE line = 23 -> 27
      [] line = 27 -> 31
      [] line = 31 -> 33
      [] line = 33 -> 37

(* a call of register_instance is between its statements *)
InRegisterInstance ==
    /\ last.op = "register_instance"
    /\ last.line \in {27, 31, 33}

(* lines 23-24: the call starts, and raises on a name that is taken *)
register_instance_enter(name, instance) ==
    /\ ~InRegisterInstance
    /\ last' = IF NameTaken(name)
               THEN [op |-> "register_instance", line |-> 24, ret |-> Raised]
               ELSE [op |-> "register_instance", line |-> NextLine(23),
                     name |-> name, instance |-> instance]
    /\ UNCHANGED <<live_classes, live_instances, file_handler, _instances, attrs>>

(* the statement at last.line: 27-29 the snapshot load, 31 the insertion   *)
(* into the table, 33-37 the per-class list                                *)
register_instance_step ==
    /\ InRegisterInstance
    /\ attrs' = IF last.line = 27 /\ HasLoadedInstances
                THEN [attrs EXCEPT ![last.instance] =
                         load_values_into_instance(@, SavedAttrs(last.name))]
                ELSE attrs
    /\ live_instances' = IF last.line = 31
                         THEN Append(live_instances,
                                     [name |-> last.name, instance |-> last.instance])
                         ELSE live_instances
    /\ _instances' = IF last.line = 33
                     THEN RecordInstance(TypeOf(last.instance), last.instance)
                     ELSE _instances
    /\ last' = IF NextLine(last.line) = 37
               THEN [op |-> "register_instance", line |-> 37, ret |-> NoneVal]
               ELSE [last EXCEPT !.line = NextLine(last.line)]
    /\ UNCHANGED <<live_classes, file_handler>>

----------------------------------------------------------------------------
(* Further properties of the registry *)

(* C14: in every state, the states between the statements of               *)
(* register_instance included, an instance get_live_instance_by_name       *)
(* returns for a name holds every attribute of the snapshot entry of that  *)
(* name at the snapshot's value, and every instance in a per-class list    *)
(* is in the instance table: the snapshot is applied before the insertion  *)
(* and the insertion comes before the append.                              *)
C14_SnapshotBeforeInsert ==
    /\ \A name \in InstanceNames :
          HasInstance(name)
              => \A a \in DOMAIN LoadedFor(name) :
                    /\ a \in DOMAIN attrs[InstanceAt(name)]
                    /\ attrs[InstanceAt(name)][a] = LoadedFor(name)[a]
    /\ \A cls \in Classes :
          \A k \in 1..Len(_instances[cls].list) :
              \E name \in InstanceNames :
                  /\ HasInstance(name)
                  /\ InstanceAt(name) = _instances[cls].list[k]

(* the call for "x" is between line 31 and line 33: the instance is in the *)
(* table and not yet in a per-class list, and its n is the snapshot's      *)
(* value, which is not the constructor's                                   *)
C14_Witness ==
    /\ InRegisterInstance
    /\ last.line = 33
    /\ last.name = "x"
    /\ HasInstance("x")
    /\ \A cls \in Classes : _instances[cls].list = <<>>
    /\ LoadedFor("x") # <<>>
    /\ attrs[InstanceAt("x")][a_n] = LoadedFor("x")[a_n]
    /\ Constructed(InstanceAt("x"))[a_n] # LoadedFor("x")[a_n]

(* the registered instances whose runtime class is cls, one per            *)
(* registration, in registration order, as a Python list                   *)
RegisteredOf(cls) ==
    LET own == SelectSeq(live_instances, LAMBDA e : TypeOf(e.instance) = cls)
    IN  ListVal([k \in 1..Len(own) |-> ObjRef(own[k].instance)])

(* C13: in every state, for each registered class, get_live_instances      *)
(* returns exactly the registered instances whose runtime class it is, in  *)
(* registration order: no instance of another class is in the list and     *)
(* none of its own is missing.                                             *)
C13_InstancesPartitionedByClass ==
    \A class_name \in DOMAIN live_classes :
        get_live_instances(class_name) = RegisteredOf(live_classes[class_name])

(* getattr(cls, "_instances", []) as a sequence *)
VisibleList(cls) == IF hasattr_instances(cls) THEN InstancesList(cls).e ELSE <<>>

(* C15: no call removes or rebinds anything: a name of the class table     *)
(* stays in it, a registered instance name stays bound to the instance     *)
(* get_live_instance_by_name returned for it, a class that has an          *)
(* _instances list keeps one, and a list changes only in a successful      *)
(* register_instance, by one element appended at its end: the instance,    *)
(* at the end of the list its class sees.                                  *)
C15_NothingRemovedOrRebound ==
    [][/\ DOMAIN live_classes \subseteq DOMAIN live_classes'
       /\ \A name \in InstanceNames :
             HasInstance(name)
                 => get_live_instance_by_name(name)' = get_live_instance_by_name(name)
       /\ \A cls \in Classes :
             /\ _instances[cls].has => _instances'[cls].has
             /\ \/ _instances'[cls].list = _instances[cls].list
                \/ /\ last'.op = "register_instance"
                   /\ last'.line = 37
                   /\ \E o \in Objects :
                         _instances'[cls].list = Append(_instances[cls].list, o)
       /\ \A name \in InstanceNames, instance \in Objects :
             (~HasInstance(name) /\ register_instance(name, instance))
                 => VisibleList(TypeOf(instance))' =
                        Append(VisibleList(TypeOf(instance)), ObjRef(instance))]_vars

(* a second instance was appended to a class's list while the class table  *)
(* held an entry and both names were bound                                 *)
C15_Witness ==
    /\ last.op = "register_instance"
    /\ last.line = 37
    /\ DOMAIN live_classes # {}
    /\ Len(live_instances) = 2
    /\ \E cls \in Classes : Len(_instances[cls].list) = 2

(* C16: no call writes to the file handler: file_handler, its              *)
(* loaded_values, the "live_instances" mapping in it and every entry of    *)
(* that mapping are after the call what they were before it.               *)
C16_LoadedValuesNeverWritten ==
    [][file_handler' = file_handler]_vars

(* serialize_instances ran after "x", which the snapshot lists, and "y",   *)
(* which it does not, were registered and an attribute of the instance of  *)
(* "x" was written: the live state differs from the loaded values          *)
C16_Witness ==
    /\ last.op = "serialize_instances"
    /\ HasInstance("x")
    /\ HasInstance("y")
    /\ LoadedFor("x") # <<>>
    /\ LoadedFor("y") = <<>>
    /\ AttrOf("x", a_b) = BoolVal(FALSE)
    /\ file_handler.loaded_values.d["live_instances"] = Snapshot

(* C17: in every state, for an attribute of a registered instance whose    *)
(* current type is none of bool, int, tuple and list (and which is not     *)
(* None), and for every raw value: when the type's constructor accepts the *)
(* raw value the call writes the constructor's result and a read gives     *)
(* it back; when the constructor fails the call returns None at line 114   *)
(* and every attribute is as it was.                                       *)
C17_OtherTypesUseConstructor ==
    \A name \in InstanceNames, attr_name \in AttrNames, value \in RawValues :
        (/\ HasInstance(name)
         /\ AttrOf(name, attr_name).t \notin {"bool", "int", "tuple", "list", "NoneType"})
            => LET attr_type == AttrOf(name, attr_name).t
                   out == SetOutcome(name, attr_name, value)
               IN  IF Construct(attr_type, value) # Raised
                   THEN /\ out.line = 111
                        /\ AttrAfterSet(name, attr_name, name, attr_name, value) =
                               Construct(attr_type, value)
                   ELSE /\ out.line = 114
                        /\ out.ret = NoneVal
                        /\ AttrsAfterSet(name, attr_name, value) = attrs

(* a write to a dict attribute failed in the constructor and left at line  *)
(* 114, after a write of an int to a str attribute had stored its digits   *)
C17_Witness ==
    /\ last.op = "set_live_instance_attr_by_name"
    /\ last.line = 114
    /\ \E name \in InstanceNames :
          HasInstance(name) /\ AttrOf(name, a_s) = StrVal(<<"0">>)
    /\ \E name \in InstanceNames :
          HasInstance(name) /\ AttrOf(name, a_d) = DictVal(<<>>)

(* C18: a call of set_live_instance_attr_by_name that writes (it leaves at *)
(* line 111) changes the value of one attribute of one registered object   *)
(* and nothing else: every object keeps its set of attribute names, every  *)
(* other attribute and every other object are as they were, and so are the *)
(* class table, the instance table and the per-class lists.                *)
C18_WriteChangesOneValue ==
    [][(/\ last'.op = "set_live_instance_attr_by_name"
        /\ last'.line = 111)
           => /\ \A o \in Objects : DOMAIN attrs'[o] = DOMAIN attrs[o]
              /\ \E name \in InstanceNames, attr_name \in AttrNames :
                    /\ HasInstance(name)
                    /\ \A o \in Objects :
                          \A a \in DOMAIN attrs[o] \cap DOMAIN attrs'[o] :
                              (o # InstanceAt(name) \/ a # attr_name)
                                  => attrs'[o][a] = attrs[o][a]
              /\ UNCHANGED <<live_classes, live_instances, _instances>>]_vars

(* C19: an attribute that holds None is treated as an absent one: in every *)
(* state, for every raw value, the call on such an attribute of a          *)
(* registered instance leaves at line 93 returning None and writes         *)
(* nothing; and no call of set_live_instance_attr_by_name changes an       *)
(* attribute that holds None, so it holds None in every later state the    *)
(* accessor leads to.                                                      *)
C19_NoneStaysNone ==
    /\ [](\A name \in InstanceNames, attr_name \in AllAttrNames, value \in RawValues :
            (HasInstance(name) /\ AttrOf(name, attr_name) = NoneVal)
                => /\ SetOutcome(name, attr_name, value).line = 93
                   /\ SetOutcome(name, attr_name, value).ret = NoneVal
                   /\ AttrsAfterSet(name, attr_name, value) = attrs)
    /\ [][last'.op = "set_live_instance_attr_by_name"
             => \A o \in Objects :
                   \A a \in DOMAIN attrs[o] :
                       attrs[o][a] = NoneVal
                           => a \in DOMAIN attrs'[o] /\ attrs'[o][a] = NoneVal]_vars

(* a call left at line 93 on the instance of "x", which holds None in z    *)
(* from its constructor and in w from the snapshot, after another of its   *)
(* attributes was written                                                  *)
C19_Witness ==
    /\ last.op = "set_live_instance_attr_by_name"
    /\ last.line = 93
    /\ live_instances = <<[name |-> "x", instance |-> "o1"]>>
    /\ Constructed("o1")[a_z] = NoneVal
    /\ AttrOf("x", a_z) = NoneVal
    /\ AttrOf("x", a_w) = NoneVal
    /\ a_w \in DOMAIN attrs["o1"]
    /\ AttrOf("x", a_b) = BoolVal(FALSE)

----------------------------------------------------------------------------
(* Save and load: the process ends and a new one starts with the snapshot  *)

(* the dict serialize_instances returns under "live_instances", as the     *)
(* mapping from instance name to attributes that line 28 looks names up in *)
AsMapping(entries) ==
    [name \in {entries[k].name : k \in 1..Len(entries)} |->
        entries[CHOOSE k \in 1..Len(entries) : entries[k].name = name].attrs]

(* the file handler was made from a snapshot of an earlier run; its field  *)
(* types keeps, for the properties below, the class of the instance each   *)
(* entry was written from                                                  *)
Reloaded == "types" \in DOMAIN file_handler

(* a new LiveManager in a new process, with freshly constructed objects    *)
(* and a file handler whose loaded_values is what serialize_instances      *)
(* returned in the old one; the model follows one such restart             *)
Reload ==
    /\ ~Reloaded
    /\ file_handler' =
          [t |-> "FileHandler",
           loaded_values |->
               DictVal([live_instances |->
                           AsMapping(serialize_instances.d["live_instances"])]),
           types |-> [name \in {live_instances[k].name : k \in 1..Len(live_instances)} |->
                         TypeOf(InstanceAt(name))]]
    /\ live_classes' = <<>>
    /\ live_instances' = <<>>
    /\ _instances' = [c \in Classes |-> [has |-> FALSE, list |-> <<>>]]
    /\ attrs' = [o \in Objects |-> Constructed(o)]
    /\ last' = [op |-> "__init__", line |-> 10, ret |-> NoneVal]

(* the entry of name in what serialize_instances returns *)
SerializedEntry(name) == AsMapping(serialize_instances.d["live_instances"])[name]

(* C20: in a registry whose loaded values are the snapshot S of an earlier *)
(* registry, registering a freshly constructed instance under a name of S, *)
(* of the class the entry was written from, leaves every attribute of the  *)
(* entry on the instance with the entry's value, and serialize_instances   *)
(* then gives for the name the entry S has.                                *)
C20_SaveLoadRoundTrip ==
    [][\A name \in InstanceNames, instance \in Objects :
          (/\ Reloaded
           /\ name \in DOMAIN file_handler.types
           /\ file_handler.types[name] = TypeOf(instance)
           /\ attrs[instance] = Constructed(instance)
           /\ ~HasInstance(name)
           /\ register_instance(name, instance))
              => /\ \A a \in DOMAIN LoadedFor(name) :
                       /\ a \in DOMAIN attrs'[instance]
                       /\ attrs'[instance][a] = LoadedFor(name)[a]
                 /\ SerializedEntry(name)' = LoadedFor(name)]_vars

(* after the restart "x" was registered with a fresh instance of the class *)
(* its entry was written from; the entry holds an edited bool and an       *)
(* attribute the first snapshot had brought in, and serializes back to     *)
(* itself                                                                  *)
C20_Witness ==
    /\ Reloaded
    /\ last.op = "register_instance"
    /\ last.line = 37
    /\ live_instances = <<[name |-> "x", instance |-> "o1"]>>
    /\ "x" \in DOMAIN file_handler.types
    /\ file_handler.types["x"] = TypeOf("o1")
    /\ a_b \in DOMAIN LoadedFor("x")
    /\ LoadedFor("x")[a_b] = BoolVal(FALSE)
    /\ a_w \in DOMAIN LoadedFor("x")
    /\ a_tracked \notin DOMAIN LoadedFor("x")
    /\ SerializedEntry("x") = LoadedFor("x")

RegistryCalls ==
    \/ \E cls \in Classes : register_class(cls)
    \/ call_get_live_classes
    \/ \E class_name \in ClassNames : call_get_live_class_by_name(class_name)
    \/ \E class_name \in ClassNames : call_get_live_instances(class_name)

InstanceCalls ==
    \/ \E name \in InstanceNames, instance \in Objects : register_instance(name, instance)
    \/ \E name \in InstanceNames : call_get_live_instance_by_name(name)
    \/ call_serialize_instances

AccessorCalls ==
    \/ \E name \in InstanceNames, attr_name \in AttrNames, value \in RawValues :
          set_live_instance_attr_by_name(name, attr_name, value)
    \/ \E instance \in {ObjRef(o) : o \in Objects} \cup {NoneVal}, attr_name \in AttrNames :
          call_get_live_instance_attr_by_name(instance, attr_name)

Next == RegistryCalls \/ InstanceCalls \/ AccessorCalls

Spec == Init /\ [][Next]_vars

(* the registry's callers with register_instance run statement by          *)
(* statement; no other call starts while one is running                    *)
StepCalls ==
    \/ \E name \in InstanceNames, instance \in Objects :
          register_instance_enter(name, instance)
    \/ register_instance_step
    \/ ~InRegisterInstance /\ \E cls \in Classes : register_class(cls)
    \/ ~InRegisterInstance /\ \E class_name \in ClassNames : call_get_live_instances(class_name)
    \/ ~InRegisterInstance /\ \E name \in InstanceNames : call_get_live_instance_by_name(name)

SpecSteps == Init /\ [][StepCalls]_vars

(* the callers that register and look up classes and instances *)
SpecRegistry == Init /\ [][RegistryCalls \/ InstanceCalls]_vars

(* the callers that register instances and edit their attributes, with    *)
(* the snapshot loaded: it has an entry for "x" and none for "y"           *)
InitAccessor ==
    /\ Init
    /\ file_handler # NoneVal
    /\ HasLoadedInstances

SpecAccessor == InitAccessor /\ [][InstanceCalls \/ AccessorCalls]_vars

(* the accessor's callers in a first run, a restart with the snapshot of   *)
(* that run, and registrations in the second run                           *)
ReloadCalls ==
    \/ InstanceCalls
    \/ ~Reloaded /\ AccessorCalls
    \/ Reload

SpecReload == InitAccessor /\ [][ReloadCalls]_vars

====
